---------------------------- MODULE Spec2Model ----------------------------
(***************************************************************************)
(* p-saturation of points on an elliptic curve                             *)
(* (src/src/sage/schemes/elliptic_curves/saturation.py).                   *)
(*                                                                         *)
(* The Mordell-Weil group E(K) is modelled as Z x Z/tors: a point is the   *)
(* pair <<f, t>> of its free coordinate and its torsion coordinate.  The   *)
(* library services the module calls (point arithmetic, division points,   *)
(* torsion generators, reduction modulo an auxiliary prime, linear algebra *)
(* over GF(p), the projective-space iterator) are modelled by what they    *)
(* compute on that group.  Python objects that the code shares or mutates  *)
(* (lists, dicts, the default-argument dicts) are modelled by identity.    *)
(***************************************************************************)
EXTENDS Integers, Sequences, FiniteSets, TLC

\* Largest free coordinate of a point handed in by a caller.
MaxCoord == 3
\* Largest order of the (cyclic) torsion subgroup of E(K).
MaxTorsion == 3
\* Number of top-level calls in one interpreter session (SpecSession).
MaxCalls == 2
\* the fallback entered after eleven reductions without progress
StagnationLimit_Eleven == 10 + 1
\* The stagnation threshold of the sieve (saturation.py line 368).
StagnationLimit == 10

\* The primes at which saturation is asked for.
SatPrimes == {2, 3}

(***************************************************************************)
(* Curve arithmetic in E(K) = Z x Z/m                                      *)
(***************************************************************************)
E0 == <<0, 0>>

Add(P, Q, m) == <<P[1] + Q[1], (P[2] + Q[2]) % m>>

Mul(c, P, m) == <<c * P[1], (c * P[2]) % m>>

RECURSIVE SumFrom(_, _, _)
\* Python's sum(seq, start) over points
SumFrom(seq, start, m) ==
    IF seq = <<>> THEN start
    ELSE SumFrom(Tail(seq), Add(start, Head(seq), m), m)

\* P.division_points(p): every R with p*R = P
DivisionPoints(P, p, m) ==
    IF P[1] % p # 0 THEN {}
    ELSE {<<P[1] \div p, s>> : s \in {s \in 0..(m - 1) : (p * s) % m = P[2]}}

\* E.torsion_subgroup().gens(): one generator of order m, none when m = 1
TorsionGens(m) == IF m > 1 THEN << <<0, 1>> >> ELSE <<>>

\* T.order() for a torsion generator
TorsionOrder(T, m) == m

\* multiples(P, k): the list [0*P, 1*P, ..., (k-1)*P], indexed from 0
Multiples(P, k, m) == [c \in 0..(k - 1) |-> Mul(c, P, m)]

\* the integer linear combination sum(c_i * P_i) of a point list
LinComb(c, Pl, m) ==
    SumFrom([i \in 1..Len(Pl) |-> Mul(c[i], Pl[i], m)], E0, m)

(***************************************************************************)
(* Linear algebra over GF(p)                                               *)
(***************************************************************************)
VecSpace(p, n) == [1..n -> 0..(p - 1)]

ZeroVec(n) == [i \in 1..n |-> 0]

Dot(a, c) == IF Len(a) = 0 THEN 0
             ELSE IF Len(a) = 1 THEN a[1] * c[1]
             ELSE a[1] * c[1] + a[2] * c[2]

\* The matrix A is kept as its row space (the set of all GF(p)-combinations
\* of its rows): the code reads A only through A.rank() and A.right_kernel().
EmptyMatrix(n) == {ZeroVec(n)}

\* matrix(A.rows() + [v])
AppendRow(A, v, p) ==
    {[i \in 1..Len(v) |-> (a[i] + c * v[i]) % p] : a \in A, c \in 0..(p - 1)}

RECURSIVE AppendRows(_, _, _)
\* for v in vecs: A = matrix(A.rows() + [v])
AppendRows(A, vecs, p) ==
    IF vecs = <<>> THEN A
    ELSE AppendRows(AppendRow(A, Head(vecs), p), Tail(vecs), p)

RECURSIVE Power(_, _)
Power(b, e) == IF e = 0 THEN 1 ELSE b * Power(b, e - 1)

\* A.rank()
Rank(A, p, n) == CHOOSE r \in 0..n : Power(p, r) = Cardinality(A)

\* A.right_kernel() as a set of vectors
RightKernel(A, p, n) ==
    {c \in VecSpace(p, n) : \A a \in A : Dot(a, c) % p = 0}

\* position (from 1) of the first nonzero entry of a nonzero vector
FirstNonzero(v) == CHOOSE i \in 1..Len(v) : v[i] # 0 /\ \A j \in 1..(i - 1) : v[j] = 0

Pivots(W, n) == {FirstNonzero(v) : v \in {x \in W : x # ZeroVec(n)}}

\* the reduced echelon basis vector of W with pivot j
PivotVector(W, n, j) ==
    CHOOSE v \in W : /\ v # ZeroVec(n)
                     /\ FirstNonzero(v) = j
                     /\ v[j] = 1
                     /\ \A i \in Pivots(W, n) \ {j} : v[i] = 0

RECURSIVE BasisFrom(_, _, _)
BasisFrom(W, n, j) ==
    IF j > n THEN <<>>
    ELSE (IF j \in Pivots(W, n) THEN <<PivotVector(W, n, j)>> ELSE <<>>)
         \o BasisFrom(W, n, j + 1)

\* A.right_kernel().basis(): the echelonized basis, pivots ascending
KernelBasis(A, p, n) == BasisFrom(RightKernel(A, p, n), n, 1)

(***************************************************************************)
(* The projective-space iterator                                           *)
(***************************************************************************)
\* number of trailing zeros of a nonzero tuple
TrailingZeros(v) ==
    Len(v) - (CHOOSE i \in 1..Len(v) : v[i] # 0 /\ \A j \in (i + 1)..Len(v) : v[j] = 0)

\* tuples normalised so that the last nonzero coordinate is 1
ProjectivePoints(p, n) ==
    {v \in VecSpace(p, n) :
        /\ v # ZeroVec(n)
        /\ v[Len(v) - TrailingZeros(v)] = 1}

RECURSIVE PrefixValue(_, _, _)
PrefixValue(v, i, p) == IF i = 0 THEN 0 ELSE PrefixValue(v, i - 1, p) * p + v[i]

\* iteration order: fewest trailing zeros first, then the prefix in
\* lexicographic order
IterKey(v, p) ==
    TrailingZeros(v) * Power(p, Len(v)) + PrefixValue(v, Len(v) - TrailingZeros(v) - 1, p)

\* list(ProjectiveSpace(GF(p), n-1)) with each point turned into a tuple of ints
ProjectiveSpace(p, n) ==
    LET S == ProjectivePoints(p, n)
    IN  [i \in 1..Cardinality(S) |->
            CHOOSE v \in S : Cardinality({u \in S : IterKey(u, p) < IterKey(v, p)}) = i - 1]

\* w.index(1): 0-based position of the first coordinate equal to 1
IndexOfOne(w) == (CHOOSE i \in 1..Len(w) : w[i] = 1 /\ \A j \in 1..(i - 1) : w[j] # 1) - 1

(***************************************************************************)
(* Python dicts, as sets of <<key, value>> pairs                           *)
(***************************************************************************)
Keys(d) == {e[1] : e \in d}

Get(d, k) == (CHOOSE e \in d : e[1] = k)[2]

\* d[k] = v
Put(d, k, v) == {e \in d : e[1] # k} \cup {<<k, v>>}

(***************************************************************************)
(* p_projections (saturation.py lines 56-168)                              *)
(***************************************************************************)
\* A homomorphism E(K) -> GF(p): reduction modulo an auxiliary prime followed
\* by one coordinate of the reduced group modulo p.  It is given by its value
\* u on the free generator and w on the torsion generator (w*m = 0 in GF(p)).
Functionals(p, m) ==
    {<<u, w>> : u \in 0..(p - 1), w \in {x \in 0..(p - 1) : (x * m) % p = 0}}

\* the image of the point list under a functional: one vector of GF(p)^n
Image(phi, Pl, p) ==
    [i \in 1..Len(Pl) |-> (phi[1] * Pl[i][1] + phi[2] * Pl[i][2]) % p]

\* The group G of a reduced curve together with the reduced points: prank is
\* the number of nonzero generators of its p-primary part, phi the coordinate
\* maps (one per generator), fault what the library calls do ("" when they
\* succeed, "weil" when the Weil pairing of the generators has the wrong
\* order, "dlog" when a discrete logarithm raises ValueError).  The two maps
\* of a non-cyclic p-part are listed in one order only: the other order gives
\* the same two rows of A.
FunctionalBefore(f, g, p) == f[1] * p + f[2] < g[1] * p + g[2]

Groups(p, m) ==
    {[prank |-> 1, phi |-> <<f>>, fault |-> ""] : f \in Functionals(p, m)}
    \cup
    {[prank |-> 2, phi |-> <<pair[1], pair[2]>>, fault |-> ""] :
        pair \in {q \in Functionals(p, m) \X Functionals(p, m) :
                     FunctionalBefore(q[1], q[2], p)}}

MalformedGroups(p, m) ==
    {[prank |-> r, phi |-> [i \in 1..r |-> <<0, 0>>], fault |-> x] :
        r \in 1..2, x \in {"weil", "dlog"}}

\* the outcome of one call: the exception raised ("" for none) and the vectors
p_projections(G, Pl, p) ==
    IF G.prank = 0 THEN [exc |-> "", vecs |-> <<>>]
    ELSE IF G.prank = 1
    THEN IF G.fault = "dlog" THEN [exc |-> "ValueError", vecs |-> <<>>]
         ELSE [exc |-> "", vecs |-> <<Image(G.phi[1], Pl, p)>>]
    ELSE IF G.fault = "weil" THEN [exc |-> "AssertionError", vecs |-> <<>>]
    ELSE IF G.fault = "dlog" THEN [exc |-> "ValueError", vecs |-> <<>>]
    ELSE [exc |-> "", vecs |-> <<Image(G.phi[1], Pl, p), Image(G.phi[2], Pl, p)>>]

\* lines 350-356: the try/except around p_projections.  exc is the exception
\* that leaves the handler, tries the number of calls made.
ProjectWithRetry(G, Pl, p) ==
    LET first == p_projections(G, Pl, p)
        second == p_projections(G, Pl, p)
    IN  IF first.exc = "" THEN [exc |-> "", vecs |-> first.vecs, tries |-> 1]
        ELSE IF first.exc # "ValueError"
        THEN [exc |-> first.exc, vecs |-> <<>>, tries |-> 1]
        ELSE IF second.exc = "" THEN [exc |-> "", vecs |-> second.vecs, tries |-> 2]
        ELSE IF second.exc # "ValueError"
        THEN [exc |-> second.exc, vecs |-> <<>>, tries |-> 2]
        ELSE [exc |-> "", vecs |-> <<>>, tries |-> 2]

(***************************************************************************)
(* State                                                                   *)
(***************************************************************************)
VARIABLES
    tors,    \* order of the torsion subgroup of the curve E(K)
    calls,   \* number of top-level calls made in this session
    pc,      \* where control is
    lists,   \* the list objects: their contents, by identity
    dicts,   \* the dict objects: their contents, by identity
    fps,     \* the frame of full_p_saturation
    ps,      \* the frame of the outer p_saturation call
    nest,    \* the frame of the nested (kernel) p_saturation call
    k,       \* position of the exhaustive loop in the projective space
    rv,      \* the value a p_saturation call has just returned
    result   \* what the last top-level call gave its caller

vars == <<tors, calls, pc, lists, dicts, fps, ps, nest, k, rv, result>>

ListIds == {"caller", "work", "out"}
DictIds == {"psDefault", "fpsDefault", "callerDict", "local", "nested"}

NoFps == [active |-> FALSE, Plist |-> "caller", lin |-> "fpsDefault", n |-> 0,
          nx |-> 0, p |-> 0, exponent |-> 0, input |-> <<>>]

NoPs == [active |-> FALSE, top |-> FALSE, Plist |-> "caller", p |-> 0,
         sieve |-> FALSE, lin |-> "psDefault", omitted |-> FALSE, lin0 |-> {},
         A |-> {}, rankA |-> 0, count |-> 0]

NoNest == [active |-> FALSE, Rlist |-> <<>>, vecs |-> <<>>]

\* A return value of p_saturation: (True, lin_combs) or (False, i, Q).  coef
\* records the coefficients of the combination that was found divisible and
\* via the branch that produced the value.
NoRv == [ok |-> TRUE, i |-> 0, Q |-> E0, coef |-> <<>>, lin |-> "psDefault",
         via |-> ""]

NoResult == [fn |-> "none", exc |-> "", rv |-> NoRv, list |-> "caller", exponent |-> 0,
             tries |-> 0]

\* the points a caller hands in
PointInputs(m) == {<<f, t>> : f \in 1..MaxCoord, t \in 0..(m - 1)}

\* lists of independent points, for full_p_saturation
IndependentLists(m) == {<<>>} \cup {<<P>> : P \in PointInputs(m)}

\* p_saturation is also called on a point together with a torsion generator
\* (doctest at lines 253-264)
PointLists(m) ==
    IndependentLists(m) \cup
    {<<P, TorsionGens(m)[1]>> : P \in {Q \in PointInputs(m) : m > 1}}

\* a cache that holds every projective combination of the list
ValidCache(Pl, p, m) ==
    IF Pl = <<>> THEN {}
    ELSE {<<w, LinComb(w, Pl, m)>> : w \in ProjectivePoints(p, Len(Pl))}

\* the lin_combs argument: omitted, an empty dict, or a dict prepared for Plist
CacheArgs == {"omitted", "empty", "valid"}

ArgDict(arg, Pl, p, m) == IF arg = "valid" THEN ValidCache(Pl, p, m) ELSE {}

Init ==
    /\ tors \in 1..MaxTorsion
    /\ calls = 0
    /\ pc = "idle"
    /\ lists = [id \in ListIds |-> <<>>]
    /\ dicts = [id \in DictIds |-> {}]
    /\ fps = NoFps
    /\ ps = NoPs
    /\ nest = NoNest
    /\ k = 0
    /\ rv = NoRv
    /\ result = NoResult

(***************************************************************************)
(* p_saturation (lines 170-416)                                            *)
(***************************************************************************)
\* the frame whose code is running
CurPlist == IF nest.active THEN nest.Rlist ELSE lists[ps.Plist]
\* the nested call given the cache of the call that made it
CurLin_Shared == ps.lin
CurLin == IF nest.active THEN "nested" ELSE ps.lin
\* the nested call run with the sieve setting of the call that made it
CurSieve_Inherited == ps.sieve
CurSieve == IF nest.active THEN FALSE ELSE ps.sieve

\* a new outer frame for the call p_saturation(Plist, p, sieve, lin_combs)
NewPs(top, Plid, p, sieve, lin, omitted, contents) ==
    [active |-> TRUE, top |-> top, Plist |-> Plid, p |-> p, sieve |-> sieve,
     lin |-> lin, omitted |-> omitted, lin0 |-> contents,
     A |-> {}, rankA |-> 0, count |-> 0]

\* A caller invokes p_saturation(Plist, p, sieve[, lin_combs]) (line 170).
CallPSaturation(Pl, p, sieve, arg) ==
    /\ pc = "idle"
    /\ calls' = calls + 1
    /\ lists' = [id \in ListIds |-> IF id = "caller" THEN Pl ELSE <<>>]
    /\ dicts' = [dicts EXCEPT !["callerDict"] = ArgDict(arg, Pl, p, tors),
                              !["local"] = {}, !["nested"] = {}]
    /\ LET lin == IF arg = "omitted" THEN "psDefault" ELSE "callerDict"
       IN  ps' = NewPs(TRUE, "caller", p, sieve, lin, arg = "omitted", dicts'[lin])
    /\ fps' = NoFps
    /\ nest' = NoNest
    /\ k' = 0
    /\ rv' = NoRv
    /\ result' = NoResult
    /\ pc' = "ps_entry"
    /\ UNCHANGED tors

\* the special case taken for the wrong prime
SpecialCase_WrongPrime(n, p) == n = 1 /\ p = 3

\* line 274: the single point, p = 2 case
SpecialCase(n, p) == n = 1 /\ p = 2

\* lines 270-280 and the start of either strategy (lines 282-289, 317-319)
PSatEntry ==
    /\ pc = "ps_entry"
    /\ LET Pl == CurPlist
           n == Len(Pl)
           p == ps.p
       IN  IF n = 0
           THEN /\ rv' = [NoRv EXCEPT !.ok = TRUE, !.lin = CurLin, !.via = "empty"]
                /\ pc' = "ps_return"
                /\ UNCHANGED <<ps, k>>
           ELSE IF SpecialCase(n, p)
           THEN /\ IF DivisionPoints(Pl[1], p, tors) # {}
                   THEN \E Q \in DivisionPoints(Pl[1], p, tors) :
                            rv' = [ok |-> FALSE, i |-> 0, Q |-> Q, coef |-> <<1>>,
                                   lin |-> CurLin, via |-> "division"]
                   ELSE rv' = [NoRv EXCEPT !.ok = TRUE, !.lin = CurLin,
                                           !.via = "division"]
                /\ pc' = "ps_return"
                /\ UNCHANGED <<ps, k>>
           ELSE IF ~CurSieve
           THEN /\ k' = 1
                /\ pc' = "exh"
                /\ UNCHANGED <<ps, rv>>
           ELSE /\ ps' = [ps EXCEPT !.A = EmptyMatrix(n), !.rankA = 0, !.count = 0]
                /\ pc' = "sieve"
                /\ UNCHANGED <<k, rv>>
    /\ UNCHANGED <<tors, calls, lists, dicts, fps, nest, result>>

\* line 286: the tables of multiples, the last point's up to 2 only
Mults(Pl, p, m) ==
    [i \in 1..Len(Pl) |-> Multiples(Pl[i], IF i < Len(Pl) THEN p ELSE 2, m)]

\* the sum taken over all points but the last
Combination_DropLast(w, Pl, p, m) ==
    SumFrom([i \in 1..(Len(Pl) - 1) |-> Mults(Pl, p, m)[i][w[i]]], E0, m)

\* line 294: sum([m[c] for m, c in zip(mults, w)], E0)
Combination(w, Pl, p, m) ==
    SumFrom([i \in 1..Len(Pl) |-> Mults(Pl, p, m)[i][w[i]]], E0, m)

\* lines 291-295: the point P for the tuple w, looked up or computed
Lookup(d, w, Pl, p, m) ==
    IF w \in Keys(d) THEN Get(d, w) ELSE Combination(w, Pl, p, m)

\* the cache rebuilt around the one entry instead of extended by it
Store_Rebuild(d, w, Pl, p, m) == {<<w, Lookup(d, w, Pl, p, m)>>}

\* lines 291-295: the cache after the tuple w has been handled
Store(d, w, Pl, p, m) ==
    IF w \in Keys(d) THEN d ELSE Put(d, w, Combination(w, Pl, p, m))

\* one iteration of the loop at lines 289-301
ExhaustiveStep ==
    /\ pc = "exh"
    /\ k <= Len(ProjectiveSpace(ps.p, Len(CurPlist)))
    /\ LET Pl == CurPlist
           p == ps.p
           w == ProjectiveSpace(p, Len(Pl))[k]
           d == dicts[CurLin]
           P == Lookup(d, w, Pl, p, tors)
           divisors == DivisionPoints(P, p, tors)
       IN  /\ dicts' = [dicts EXCEPT ![CurLin] = Store(d, w, Pl, p, tors)]
           /\ IF divisors # {}
              THEN /\ \E Q \in divisors :
                         rv' = [ok |-> FALSE, i |-> IndexOfOne(w), Q |-> Q,
                                coef |-> w, lin |-> CurLin, via |-> "exhaustive"]
                   /\ pc' = "ps_return"
                   /\ UNCHANGED k
              ELSE /\ k' = k + 1
                   /\ UNCHANGED <<pc, rv>>
    /\ UNCHANGED <<tors, calls, lists, fps, ps, nest, result>>

\* lines 302-304: the loop ran to its end
ExhaustiveDone ==
    /\ pc = "exh"
    /\ k > Len(ProjectiveSpace(ps.p, Len(CurPlist)))
    /\ rv' = [NoRv EXCEPT !.ok = TRUE, !.lin = CurLin, !.via = "exhaustive"]
    /\ pc' = "ps_return"
    /\ UNCHANGED <<tors, calls, lists, dicts, fps, ps, nest, k, result>>

\* lines 326-328 and 339-342: an auxiliary prime (or a root modulo it) that
\* is degenerate, or whose reduced curve has order prime to p, is passed over
SieveSkip ==
    /\ pc = "sieve"
    /\ UNCHANGED vars

\* lines 373-381 and 408-411: the points of the kernel basis, and the nested
\* call p_saturation(Rlist, p, sieve=False, lin_combs=dict())
KernelPoints(vecs, Pl, m) == [j \in 1..Len(vecs) |-> LinComb(vecs[j], Pl, m)]

CallNested(A, n) ==
    LET vecs == KernelBasis(A, ps.p, n)
    IN  /\ nest' = [active |-> TRUE, Rlist |-> KernelPoints(vecs, lists[ps.Plist], tors),
                    vecs |-> vecs]
        /\ dicts' = [dicts EXCEPT !["nested"] = {}]
        /\ pc' = "ps_entry"

\* an exception leaves the running top-level call
Raise(exc, tries) ==
    /\ result' = [NoResult EXCEPT !.fn = IF fps.active THEN "full_p_saturation"
                                        ELSE "p_saturation",
                                  !.exc = exc, !.tries = tries]
    /\ pc' = "idle"
    /\ fps' = NoFps
    /\ ps' = NoPs
    /\ nest' = NoNest
    /\ rv' = NoRv
    /\ k' = 0

\* lines 349-358: the try/except around p_projections and the appending of
\* the vectors to A; exc is the exception that escapes, if any
Reduce(G) ==
    LET got == ProjectWithRetry(G, lists[ps.Plist], ps.p)
    IN  [exc |-> got.exc, tries |-> got.tries, A |-> AppendRows(ps.A, got.vecs, ps.p)]

\* the rank decision without the reset of the counter when the rank goes up
Process_NoReset(red) ==
    /\ pc = "sieve"
    /\ LET n == Len(lists[ps.Plist])
           A == red.A
           newrank == Rank(A, ps.p, n)
       IN  IF red.exc # ""
           THEN /\ Raise(red.exc, red.tries)
                /\ UNCHANGED <<tors, calls, lists, dicts>>
           ELSE IF newrank = n
           THEN /\ ps' = [ps EXCEPT !.A = A]
                /\ rv' = [NoRv EXCEPT !.ok = TRUE, !.lin = ps.lin, !.via = "rank"]
                /\ pc' = "ps_return"
                /\ UNCHANGED <<tors, calls, lists, dicts, fps, nest, k, result>>
           ELSE IF ps.count + 1 = StagnationLimit
           THEN /\ ps' = [ps EXCEPT !.A = A, !.rankA = newrank, !.count = ps.count + 1]
                /\ CallNested(A, n)
                /\ UNCHANGED <<tors, calls, lists, fps, k, rv, result>>
           ELSE /\ ps' = [ps EXCEPT !.A = A, !.rankA = newrank, !.count = ps.count + 1]
                /\ UNCHANGED <<tors, calls, pc, lists, dicts, fps, nest, k, rv, result>>

\* lines 359-399: the rank of the enlarged A decides
Process(red) ==
    /\ pc = "sieve"
    /\ LET n == Len(lists[ps.Plist])
           A == red.A
           newrank == Rank(A, ps.p, n)
       IN  IF red.exc # ""
           THEN /\ Raise(red.exc, red.tries)
                /\ UNCHANGED <<tors, calls, lists, dicts>>
           ELSE IF newrank = n
           THEN /\ ps' = [ps EXCEPT !.A = A]
                /\ rv' = [NoRv EXCEPT !.ok = TRUE, !.lin = ps.lin, !.via = "rank"]
                /\ pc' = "ps_return"
                /\ UNCHANGED <<tors, calls, lists, dicts, fps, nest, k, result>>
           ELSE IF newrank = ps.rankA
           THEN IF ps.count + 1 = StagnationLimit
                THEN /\ ps' = [ps EXCEPT !.A = A, !.count = ps.count + 1]
                     /\ CallNested(A, n)
                     /\ UNCHANGED <<tors, calls, lists, fps, k, rv, result>>
                ELSE /\ ps' = [ps EXCEPT !.A = A, !.count = ps.count + 1]
                     /\ UNCHANGED <<tors, calls, pc, lists, dicts, fps, nest, k, rv, result>>
           ELSE /\ ps' = [ps EXCEPT !.A = A, !.rankA = newrank, !.count = 0]
                /\ UNCHANGED <<tors, calls, pc, lists, dicts, fps, nest, k, rv, result>>

\* lines 343-399: one reduction whose curve order is divisible by p and whose
\* group structure and pairings are consistent
SieveReduction ==
    /\ pc = "sieve"
    /\ \E red \in {Reduce(G) : G \in Groups(ps.p, tors)} : Process(red)

\* lines 343-399: a reduction for which a library call fails inside
\* p_projections
SieveReductionMalformed ==
    /\ pc = "sieve"
    /\ \E red \in {Reduce(G) : G \in MalformedGroups(ps.p, tors)} : Process(red)

\* lines 401-411: the stream of primes ended before full rank or stagnation
SieveExhausted ==
    /\ pc = "sieve"
    /\ CallNested(ps.A, Len(lists[ps.Plist]))
    /\ UNCHANGED <<tors, calls, lists, fps, ps, k, rv, result>>

\* the coefficients over Plist of the combination sum(w_k * Rlist[k])
Lift(w, vecs, n) ==
    [i \in 1..n |->
        IF Len(vecs) = 1 THEN w[1] * vecs[1][i]
        ELSE w[1] * vecs[1][i] + w[2] * vecs[2][i]]

\* lines 382-394 and 412-416: the sieve maps the nested result back
KernelResult ==
    /\ pc = "ps_return"
    /\ nest.active
    /\ IF rv.ok
       THEN rv' = [NoRv EXCEPT !.ok = TRUE, !.lin = ps.lin, !.via = "kernel"]
       ELSE rv' = [ok |-> FALSE,
                   i |-> FirstNonzero(nest.vecs[rv.i + 1]) - 1,
                   Q |-> rv.Q,
                   coef |-> Lift(rv.coef, nest.vecs, Len(lists[ps.Plist])),
                   lin |-> ps.lin,
                   via |-> "kernel"]
    /\ nest' = NoNest
    /\ dicts' = [dicts EXCEPT !["nested"] = {}]
    /\ k' = 0
    /\ UNCHANGED <<tors, calls, pc, lists, fps, ps, result>>

\* the outer p_saturation call hands its value to whoever called it
PSatReturn ==
    /\ pc = "ps_return"
    /\ ~nest.active
    /\ IF fps.active
       THEN /\ pc' = "fps_res"
            /\ UNCHANGED <<rv, result, ps>>
       ELSE /\ pc' = "idle"
            /\ result' = [NoResult EXCEPT !.fn = "p_saturation", !.rv = rv]
            /\ rv' = NoRv
            /\ ps' = [ps EXCEPT !.active = FALSE, !.A = {}, !.rankA = 0, !.count = 0]
    /\ k' = 0
    /\ UNCHANGED <<tors, calls, lists, dicts, fps, nest>>

(***************************************************************************)
(* full_p_saturation (lines 419-522)                                       *)
(***************************************************************************)
RECURSIVE InjectTorsion(_, _, _, _)
\* lines 488-496: Plist = Plist + [T.element()] for each generator whose
\* order p divides
InjectTorsion(Pl, gens, p, m) ==
    IF gens = <<>> THEN Pl
    ELSE InjectTorsion(IF TorsionOrder(Head(gens), m) % p = 0
                       THEN Pl \o <<Head(gens)>> ELSE Pl,
                       Tail(gens), p, m)

\* A caller invokes full_p_saturation(Plist, p[, lin_combs]): lines 468-504
CallFullPSaturation(Pl, p, arg) ==
    /\ pc = "idle"
    /\ calls' = calls + 1
    /\ LET given == IF arg = "omitted" THEN "fpsDefault" ELSE "callerDict"
           ext == InjectTorsion(Pl, TorsionGens(tors), p, tors)
           n == Len(Pl)
           nx == Len(ext)
           extra_torsion == nx - n
           Plid == IF extra_torsion > 0 THEN "work" ELSE "caller"
           lin == IF extra_torsion > 0 THEN "local" ELSE given
       IN  /\ dicts' = [dicts EXCEPT !["callerDict"] = ArgDict(arg, Pl, p, tors),
                                     !["local"] = {}, !["nested"] = {}]
           /\ IF Pl = <<>>
              THEN /\ lists' = [id \in ListIds |-> <<>>]
                   /\ result' = [NoResult EXCEPT !.fn = "full_p_saturation",
                                                 !.list = "caller", !.exponent = 0]
                   /\ fps' = NoFps
                   /\ ps' = NoPs
                   /\ pc' = "idle"
              ELSE /\ lists' = [id \in ListIds |->
                                   IF id = "caller" THEN Pl
                                   ELSE IF id = "work" /\ extra_torsion > 0 THEN ext
                                   ELSE <<>>]
                   /\ fps' = [active |-> TRUE, Plist |-> Plid, lin |-> lin, n |-> n,
                              nx |-> nx, p |-> p, exponent |-> 0, input |-> Pl]
                   /\ ps' = NewPs(FALSE, Plid, p, TRUE, lin, FALSE, dicts'[lin])
                   /\ result' = NoResult
                   /\ pc' = "ps_entry"
    /\ nest' = NoNest
    /\ k' = 0
    /\ rv' = NoRv
    /\ UNCHANGED tors

\* lines 505-508: the check failed; replace a point and check again
FpsReplace ==
    /\ pc = "fps_res"
    /\ ~rv.ok
    /\ fps' = [fps EXCEPT !.exponent = fps.exponent + 1]
    /\ lists' = [lists EXCEPT ![fps.Plist][rv.i + 1] = rv.Q]
    /\ ps' = NewPs(FALSE, fps.Plist, fps.p, TRUE, fps.lin, FALSE, dicts[fps.lin])
    /\ rv' = NoRv
    /\ pc' = "ps_entry"
    /\ UNCHANGED <<tors, calls, dicts, nest, k, result>>

\* the working list returned as it is
Truncate_Keep(Pl, n) == Pl

\* line 514: Plist[:n]
Truncate(Pl, n) == SubSeq(Pl, 1, n)

\* lines 505, 510-522: the check succeeded; drop the torsion points and return
FpsFinish ==
    /\ pc = "fps_res"
    /\ rv.ok
    /\ LET extra_torsion == fps.nx - fps.n
       IN  IF extra_torsion > 0
           THEN /\ lists' = [lists EXCEPT !["out"] = Truncate(lists[fps.Plist], fps.n)]
                /\ result' = [NoResult EXCEPT !.fn = "full_p_saturation",
                                              !.list = "out", !.exponent = fps.exponent]
           ELSE /\ lists' = lists
                /\ result' = [NoResult EXCEPT !.fn = "full_p_saturation",
                                              !.list = fps.Plist,
                                              !.exponent = fps.exponent]
    /\ fps' = [fps EXCEPT !.active = FALSE]
    /\ ps' = [ps EXCEPT !.active = FALSE, !.A = {}, !.rankA = 0, !.count = 0]
    /\ rv' = NoRv
    /\ pc' = "idle"
    /\ UNCHANGED <<tors, calls, dicts, nest, k>>

(***************************************************************************)
(* Specifications                                                          *)
(***************************************************************************)
Call ==
    \/ \E Pl \in PointLists(tors), p \in SatPrimes, sieve \in BOOLEAN, arg \in CacheArgs :
           CallPSaturation(Pl, p, sieve, arg)
    \/ \E Pl \in IndependentLists(tors), p \in SatPrimes, arg \in CacheArgs :
           CallFullPSaturation(Pl, p, arg)

Step ==
    \/ PSatEntry
    \/ ExhaustiveStep
    \/ ExhaustiveDone
    \/ SieveSkip
    \/ SieveReduction
    \/ KernelResult
    \/ PSatReturn
    \/ FpsReplace
    \/ FpsFinish

\* one top-level call
Next == (calls = 0 /\ Call) \/ Step

Spec == Init /\ [][Next]_vars

\* a session of several top-level calls in one interpreter
NextSession == (calls < MaxCalls /\ Call) \/ Step

SpecSession == Init /\ [][NextSession]_vars

\* one top-level call during which library calls may fail in p_projections
NextMalformed == Next \/ SieveReductionMalformed

SpecMalformed == Init /\ [][NextMalformed]_vars

\* one top-level call over a stream of auxiliary primes that may end
NextFinite == Next \/ SieveExhausted

SpecFinite == Init /\ [][NextFinite]_vars

\* one top-level call for which the stream of auxiliary primes keeps
\* supplying reductions whose curve order p divides (lines 326-342)
SpecFair == Spec /\ WF_vars(SieveReduction)

(***************************************************************************)
(* Properties                                                              *)
(***************************************************************************)
\* a full_p_saturation call is running or has returned
FpsCalled == fps.active \/ (result.fn = "full_p_saturation" /\ result.exc = "")

FpsReturned == result.fn = "full_p_saturation" /\ result.exc = "" /\ pc = "idle"

\* C1: full_p_saturation never mutates the caller's list: during and after
\* the call the caller's list holds the points it held when it was passed,
\* in the same positions (the first assertion of the claim; the second, that
\* the returned list is another object, fails as well whenever no torsion
\* generator is injected).
C1_CallerListUnchanged ==
    (FpsCalled /\ fps.input # <<>>) => lists["caller"] = fps.input

\* C2: when p_projections signals a Weil pairing of the wrong order, the
\* AssertionError leaves p_saturation only after that projection was tried a
\* second time (the retry with diagnostic tracing).
C2_RetriedBeforePropagating ==
    result.exc = "AssertionError" => result.tries = 2

\* every entry of the dict d is the combination of Pl its key names
CacheValid(d, Pl, m) ==
    \A e \in d : Len(e[1]) = Len(Pl) /\ e[2] = LinComb(e[1], Pl, m)

\* C3: every cache full_p_saturation hands to a saturation check is valid for
\* the working point list of that check.
C3_CacheValidAtCheck ==
    (fps.active /\ ps.active /\ pc = "ps_entry" /\ ~nest.active)
        => CacheValid(dicts[ps.lin], lists[ps.Plist], tors)

\* C4: a top-level call made without a cache argument starts with an empty
\* cache.
C4_OmittedCacheStartsEmpty ==
    /\ (ps.active /\ ps.top /\ ps.omitted) => ps.lin0 = {}
    /\ (fps.active /\ fps.lin = "fpsDefault") => dicts["fpsDefault"] = {}

\* C5: when full_p_saturation returns (newPlist, e) for one point P, the
\* returned point R generates a subgroup that contains P with index p^e, that
\* is, P = p^e * R.
C5_IndexIsPowerOfP ==
    (FpsReturned /\ fps.input # <<>>)
        => /\ Len(lists[result.list]) = 1
           /\ Mul(Power(fps.p, result.exponent), lists[result.list][1], tors)
                  = fps.input[1]

\* C6: whenever a p_saturation call reports failure (False, i, Q), i is a
\* position of its point list, the combination found divisible has
\* coefficient 1 at i, and it equals p*Q.
C6_FailureNamesUnitCoefficient ==
    (pc = "ps_return" /\ ~rv.ok)
        => /\ rv.i \in 0..(Len(CurPlist) - 1)
           /\ Len(rv.coef) = Len(CurPlist)
           /\ rv.coef[rv.i + 1] = 1
           /\ LinComb(rv.coef, CurPlist, tors) = Mul(ps.p, rv.Q, tors)

\* no projective combination of the points is divisible by p
Saturated(Pl, p, m) ==
    \A w \in ProjectivePoints(p, Len(Pl)) : DivisionPoints(LinComb(w, Pl, m), p, m) = {}

\* the running p_saturation call was entered with an empty cache
FreshCache == nest.active \/ ps.lin0 = {}

\* C7: a p_saturation call on a point list with no p-divisible projective
\* combination, entered with an empty cache, returns (True, cache).
C7_SaturatedListSucceeds ==
    (pc = "ps_return" /\ FreshCache /\ Saturated(CurPlist, ps.p, tors))
        => rv.ok /\ rv.lin = CurLin

\* reached: a saturated pair of points is declared saturated by the kernel
\* fallback after ten reductions without progress
C7_Witness ==
    /\ pc = "ps_return" /\ ~nest.active /\ ps.lin0 = {}
    /\ Len(lists[ps.Plist]) = 2
    /\ Saturated(lists[ps.Plist], ps.p, tors)
    /\ rv.ok /\ rv.via = "kernel" /\ ps.count = StagnationLimit

\* C8: for one point and p = 2, p_saturation answers from the division
\* points alone: (True, cache) with the cache as it was when the point has no
\* half, (False, 0, R) with 2R the point when it has one; no reduction is
\* processed and nothing is enumerated.
C8_SinglePointAtTwo ==
    (pc = "ps_return" /\ Len(CurPlist) = 1 /\ ps.p = 2)
        => /\ rv.via = "division"
           /\ dicts[CurLin] = (IF nest.active THEN {} ELSE ps.lin0)
           /\ nest.active \/ ps.A = {}
           /\ IF DivisionPoints(CurPlist[1], 2, tors) = {}
              THEN rv.ok /\ rv.lin = CurLin
              ELSE ~rv.ok /\ rv.i = 0 /\ Mul(2, rv.Q, tors) = CurPlist[1]

\* reached: a top-level sieve-mode call on one point that has a half
C8_Witness ==
    /\ pc = "ps_return" /\ ~nest.active /\ ps.top /\ ps.sieve
    /\ Len(lists[ps.Plist]) = 1 /\ ps.p = 2
    /\ ~rv.ok

\* the number of torsion generators whose order p divides
Injected(p, m) == IF m > 1 /\ m % p = 0 THEN 1 ELSE 0

\* C9: the working list of full_p_saturation has the length of the input
\* plus the number of injected generators all along, and the returned list
\* has the length of the input.
C9_LengthPreserved ==
    /\ fps.active => Len(lists[fps.Plist]) = Len(fps.input) + Injected(fps.p, tors)
    /\ FpsReturned => Len(lists[result.list]) = Len(fps.input)

\* reached: a call that injected a generator, replaced a point and returned
C9_Witness ==
    /\ FpsReturned /\ fps.input # <<>>
    /\ Injected(fps.p, tors) = 1
    /\ result.exponent >= 1

\* the dict d2 holds every entry of d, and each new entry is the combination
\* of Pl its key names
Grows(d, d2, Pl, m) ==
    /\ d \subseteq d2
    /\ \A e \in d2 \ d : e[1] \notin Keys(d) /\ e[2] = LinComb(e[1], Pl, m)

\* C10: during a p_saturation run no key of its cache is removed or rebound,
\* and an entry is added only for an absent key, with the combination of the
\* current points as its value.
C10_CacheOnlyGrows ==
    [][/\ (ps.active /\ ps'.active)
            => Grows(dicts[ps.lin], dicts'[ps.lin], lists[ps.Plist], tors)
       /\ (nest.active /\ nest'.active)
            => Grows(dicts["nested"], dicts'["nested"], nest.Rlist, tors)]_vars

\* reached: an exhaustive run that has added two entries to an empty cache
C10_Witness ==
    /\ pc = "exh" /\ ~nest.active /\ ps.lin0 = {}
    /\ Cardinality(dicts[ps.lin]) >= 2

\* the sieve loop of the outer call is between two iterations
InSieve == pc = "sieve" /\ ps.active /\ ~nest.active

\* the rank of the matrix the outer call has built so far
TrueRank(f) == Rank(f.A, f.p, Len(lists[f.Plist]))

\* C11: in the sieve the stagnation counter counts the consecutive processed
\* reductions that left the rank of A unchanged: a reduction after which the
\* loop goes on adds one to it when the rank of A stayed and sets it to zero
\* when the rank went up (staying below n); it lies in 0..9 whenever an
\* iteration starts; and the kernel fallback is entered exactly by the
\* reduction that is the tenth in a row without a rank increase.
C11_StagnationCounter ==
    [][/\ InSieve => /\ ps.count \in 0..(StagnationLimit - 1)
                     /\ ps.rankA = TrueRank(ps)
                     /\ ps.rankA < Len(lists[ps.Plist])
       /\ (InSieve /\ pc' = "sieve")
            => /\ TrueRank(ps') >= TrueRank(ps)
               /\ TrueRank(ps') = TrueRank(ps) => ps'.count = ps.count + 1
               /\ TrueRank(ps') > TrueRank(ps)
                    => ps'.count = 0 /\ TrueRank(ps') < Len(lists[ps.Plist])
       /\ (InSieve /\ nest'.active)
            => /\ TrueRank(ps') = TrueRank(ps)
               /\ ps.count = StagnationLimit - 1
               /\ ps'.count = StagnationLimit
       /\ (InSieve /\ ps.count = StagnationLimit - 1 /\ ps'.active
             /\ ps' # ps /\ TrueRank(ps') = TrueRank(ps))
            => nest'.active]_vars

\* reached: the rank of A went up to 1 for two points, and ten reductions in
\* a row then left it there, so the kernel fallback runs
C11_Witness ==
    /\ nest.active /\ ps.active /\ ps.sieve
    /\ Len(lists[ps.Plist]) = 2
    /\ ps.rankA = 1 /\ ps.count = StagnationLimit


\* C12: saturation checks nest at most one deep: a call with the sieve
\* disabled makes no nested call; a nested call runs only the code without
\* the sieve; it is made from the sieve, on the points of a basis of the right
\* kernel of A; and once it has returned the call that made it returns
\* without making another.
C12_NestingDepthAtMostOne ==
    [][/\ nest.active => /\ ps.active /\ ps.sieve
                         /\ pc \in {"ps_entry", "exh", "ps_return"}
       /\ (ps.active /\ ~ps.sieve) => ~nest.active
       /\ (~nest.active /\ nest'.active)
            => /\ pc = "sieve" /\ pc' = "ps_entry"
               /\ nest'.Rlist = KernelPoints(KernelBasis(ps'.A, ps.p, Len(lists[ps.Plist])),
                                             lists[ps.Plist], tors)
       /\ (nest.active /\ ~nest'.active) => pc' = "ps_return"
       /\ (pc = "ps_return" /\ ~nest.active)
            => ~nest'.active /\ pc' \in {"ps_return", "fps_res", "idle"}]_vars

\* reached: the nested call enumerates the combinations of two kernel points
C12_Witness ==
    /\ nest.active /\ pc = "exh" /\ k >= 2
    /\ Len(nest.Rlist) = 2

\* the number of processed reductions the sieve loop of the frame f can
\* still take before it must return: ten for each unit of rank still missing,
\* less the reductions already counted without progress
Remaining(f) == 10 * (Len(lists[f.Plist]) - f.rankA) - f.count

\* C13: a sieve run over n >= 1 points returns a verdict after at most 10*n
\* processed reductions: the loop starts with 10*n reductions remaining,
\* every processed reduction after which the loop goes on uses up at least
\* one of them and never lowers the rank, at least one remains whenever an
\* iteration starts, and, the reductions being supplied, the run leaves the
\* loop.
C13_SieveReturnsWithinTenPerPoint ==
    /\ [][/\ (pc = "ps_entry" /\ pc' = "sieve")
               => Remaining(ps') = 10 * Len(lists[ps.Plist])
          /\ InSieve => /\ Len(lists[ps.Plist]) >= 1
                        /\ Remaining(ps) \in 1..(10 * Len(lists[ps.Plist]))
          /\ (InSieve /\ pc' = "sieve" /\ ps' # ps)
               => /\ Remaining(ps') < Remaining(ps)
                  /\ ps'.rankA >= ps.rankA
                  /\ ps.A \subseteq ps'.A]_vars
    /\ (InSieve ~> ~InSieve)

\* reached: a sieve run over two points gave its verdict through the kernel
\* fallback, after the rank went up to 1 and ten more reductions left it there
C13_Witness ==
    /\ pc = "ps_return" /\ ~nest.active /\ ps.active /\ ps.sieve
    /\ Len(lists[ps.Plist]) = 2
    /\ ps.rankA = 1 /\ ps.count = 10
    /\ ~rv.ok /\ rv.via = "kernel"

\* C14: when full_p_saturation works on a list extended by torsion
\* generators, every failed check it answers by a replacement (and an
\* increment of the exponent) names a position below the original length n,
\* so that no counted replacement is cut off when the list is truncated.
C14_ReplacementBelowOriginalLength ==
    (fps.active /\ pc = "fps_res" /\ ~rv.ok /\ fps.nx > fps.n) => rv.i < fps.n

\* the outer call runs the sieve: it has the sieve enabled and its list is
\* neither empty nor the single point at p = 2
SieveCall ==
    /\ ps.active /\ ps.sieve
    /\ Len(lists[ps.Plist]) >= 1
    /\ ~SpecialCase(Len(lists[ps.Plist]), ps.p)

\* C15: a p_saturation call that runs the sieve leaves the cache it was given
\* alone: the cache holds exactly the entries it had at entry all along, the
\* enumeration it triggers works on the cache of the nested call, which is
\* another dict and empty when the nested call starts, and on success the
\* cache returned is the one passed in.
C15_SieveLeavesCacheAlone ==
    SieveCall =>
        /\ dicts[ps.lin] = ps.lin0
        /\ pc = "exh" => nest.active /\ CurLin # ps.lin
        /\ (nest.active /\ pc = "ps_entry") => dicts[CurLin] = {}
        /\ (pc = "ps_return" /\ ~nest.active /\ rv.ok) => rv.lin = ps.lin

\* reached: a sieve-mode call given a non-empty cache for two points returns
\* success after its nested call enumerated their combinations
C15_Witness ==
    /\ SieveCall /\ ps.top /\ ps.lin0 # {}
    /\ Len(lists[ps.Plist]) = 2
    /\ pc = "ps_return" /\ ~nest.active
    /\ rv.ok /\ rv.via = "kernel"

=============================================================================
